---- MODULE Spec2Model ----
(***************************************************************************)
(* lambda-expression.hpp: untyped lambda terms as closures over            *)
(* std::function<expression(expression)>, the combinator library, the      *)
(* Church / Scott codecs and run_on_integer_sequence.                      *)
(*                                                                         *)
(* An expression is a closure: the lambda it was built from (tag), the     *)
(* integer it captured (n, only church_encode captures one) and the        *)
(* expressions it captured by copy (env).  pass_by_value invokes the       *)
(* closure's mapping; the public operator() only builds a new closure.     *)
(* The host evaluates a chain a.pass_by_value(b).pass_by_value(c) strictly *)
(* from the left, so one evaluation is a callee (fn) and the arguments     *)
(* still to be passed to what it returns (stack).                          *)
(***************************************************************************)
EXTENDS Integers, Sequences, FiniteSets, TLC

\* ---------------------------------------------------------------- bounds
MaxN    == 3   \* numerals 0..MaxN for the arithmetic and codec round trips
MaxLen  == 2   \* length of the enumerated input sequences
MaxElem == 2   \* elements 0..MaxElem of the enumerated input sequences

\* ------------------------------------------------------------ expression
Clo(tag, n, env) == [tag |-> tag, n |-> n, env |-> env]

\* expression::operator(): [arg, *this](expression _) {...}; nothing is invoked
operator_call_swapped(self, arg) == Clo("operator()", 0, <<arg, self>>)

operator_call(self, arg) == Clo("operator()", 0, <<self, arg>>)

\* ---------------------------------------------------------- church_encode
church_encode(n) == Clo("church_encode", n, <<>>)

RECURSIVE church_loop(_, _, _)
church_loop(k, f, x) ==
    IF k = 0 THEN x ELSE church_loop(k - 1, f, operator_call(f, x))

church_encode_body_once_more(n, f, x) == church_loop(n + 1, f, x)

\* for (i = 0; i < n; ++i) x = f(x); return x;
church_encode_body(n, f, x) == church_loop(n, f, x)

\* ----------------------------------------------------------- combinators
truth      == Clo("truth", 0, <<>>)
falsity    == Clo("falsity", 0, <<>>)
Y          == Clo("Y", 0, <<>>)
I          == Clo("I", 0, <<>>)
K          == Clo("K", 0, <<>>)
S          == Clo("S", 0, <<>>)
succ       == Clo("succ", 0, <<>>)
pred       == Clo("pred", 0, <<>>)
add        == Clo("add", 0, <<>>)
sub        == Clo("sub", 0, <<>>)
mult       == Clo("mult", 0, <<>>)
cons       == Clo("cons", 0, <<>>)
car        == Clo("car", 0, <<>>)
cdr        == Clo("cdr", 0, <<>>)
empty_list == Clo("empty_list", 0, <<>>)
is_empty   == Clo("is_empty", 0, <<>>)

\* the second lambda of Y, [f](expression x) { return f(x(x)); }, as an expression
Y_x(f) == Clo("Y_x", 0, <<f>>)

Y_x_body(f, x) == operator_call(f, operator_call(x, x))

Y_body_no_self_application(f) == operator_call(f, Y_x(f))

\* Y: the first lambda is called directly on the second one
Y_body(f) == Y_x_body(f, Y_x(f))

S_body(x, y, z) == operator_call(operator_call(x, z), operator_call(y, z))

succ_body_forgets_f(n, f, x) == operator_call(operator_call(n, f), x)

succ_body(n, f, x) == operator_call(f, operator_call(operator_call(n, f), x))

pred_body_no_rotation(n, f, x) == operator_call(operator_call(n, f), x)

pred_body(n, f, x) ==
    operator_call(
        operator_call(
            operator_call(n, Clo("pred_g", 0, <<f>>)),
            Clo("pred_const", 0, <<x>>)),
        Clo("pred_id", 0, <<>>))

pred_gh_body(f, g, h) == operator_call(h, operator_call(g, f))

add_body(n, m) == operator_call(operator_call(n, succ), m)

sub_body(n, m) == operator_call(operator_call(m, pred), n)

mult_body_seed_m(n, m) == operator_call(operator_call(n, operator_call(add, m)), m)

mult_body(n, m) ==
    operator_call(operator_call(n, operator_call(add, m)), church_encode(0))

cons_body(a, b, f) == operator_call(operator_call(f, a), b)

car_body(p) == operator_call(p, Clo("car_x", 0, <<>>))

cdr_body(p) == operator_call(p, Clo("cdr_x", 0, <<>>))

empty_list_xy_body_second(x, y) == y

\* the innermost lambda of empty_list: [x](expression y) { return x; }
empty_list_xy_body(x, y) == x

is_empty_body_applies_truth(l) == operator_call(l, truth)

is_empty_body(l) == operator_call(l, Clo("is_empty_x", 0, <<>>))

\* ------------------- a caller's program: the sum of a Scott list (spec.md 8)
\* sum_step = \self. \l. is_empty l 0 (add (car l) (self (cdr l)))
sum_step    == Clo("sum_step", 0, <<>>)
\* sum_program = \l. cons (Y sum_step l) empty_list
sum_program == Clo("sum_program", 0, <<>>)

sum_step_body(self, l) ==
    operator_call(
        operator_call(operator_call(is_empty, l), church_encode(0)),
        operator_call(
            operator_call(add, operator_call(car, l)),
            operator_call(self, operator_call(cdr, l))))

sum_program_body(l) ==
    operator_call(
        operator_call(cons, operator_call(operator_call(Y, sum_step), l)),
        empty_list)

\* ------------------------------------------------ the decoders' closures
\* church_decode: [&decoded](expression x) { ++decoded; return x; }
counting     == Clo("counting", 0, <<>>)
\* scott_decode: expression _output_list = [&result](expression f) {...}
_output_list == Clo("_output_list", 0, <<>>)

\* ----------------------------------------------------------------- Body
\* What the mapping of a closure returns for arg, for the lambdas whose body
\* only builds closures (every application in them is operator()).
Body(e, arg) ==
    CASE e.tag = "church_encode"  -> Clo("church_encode_f", e.n, <<arg>>)
      [] e.tag = "church_encode_f" -> church_encode_body(e.n, e.env[1], arg)
      [] e.tag = "truth"          -> Clo("truth_x", 0, <<arg>>)
      [] e.tag = "truth_x"        -> e.env[1]
      [] e.tag = "falsity"        -> Clo("falsity_x", 0, <<>>)
      [] e.tag = "falsity_x"      -> arg
      [] e.tag = "Y"              -> Y_body(arg)
      [] e.tag = "Y_x"            -> Y_x_body(e.env[1], arg)
      [] e.tag = "I"              -> arg
      [] e.tag = "K"              -> Clo("K_x", 0, <<arg>>)
      [] e.tag = "K_x"            -> e.env[1]
      [] e.tag = "S"              -> Clo("S_x", 0, <<arg>>)
      [] e.tag = "S_x"            -> Clo("S_xy", 0, <<e.env[1], arg>>)
      [] e.tag = "S_xy"           -> S_body(e.env[1], e.env[2], arg)
      [] e.tag = "succ"           -> Clo("succ_n", 0, <<arg>>)
      [] e.tag = "succ_n"         -> Clo("succ_nf", 0, <<e.env[1], arg>>)
      [] e.tag = "succ_nf"        -> succ_body(e.env[1], e.env[2], arg)
      [] e.tag = "pred"           -> Clo("pred_n", 0, <<arg>>)
      [] e.tag = "pred_n"         -> Clo("pred_nf", 0, <<e.env[1], arg>>)
      [] e.tag = "pred_nf"        -> pred_body(e.env[1], e.env[2], arg)
      [] e.tag = "pred_g"         -> Clo("pred_gh", 0, <<e.env[1], arg>>)
      [] e.tag = "pred_gh"        -> pred_gh_body(e.env[1], e.env[2], arg)
      [] e.tag = "pred_const"     -> e.env[1]
      [] e.tag = "pred_id"        -> arg
      [] e.tag = "add"            -> Clo("add_n", 0, <<arg>>)
      [] e.tag = "add_n"          -> add_body(e.env[1], arg)
      [] e.tag = "sub"            -> Clo("sub_n", 0, <<arg>>)
      [] e.tag = "sub_n"          -> sub_body(e.env[1], arg)
      [] e.tag = "mult"           -> Clo("mult_n", 0, <<arg>>)
      [] e.tag = "mult_n"         -> mult_body(e.env[1], arg)
      [] e.tag = "cons"           -> Clo("cons_a", 0, <<arg>>)
      [] e.tag = "cons_a"         -> Clo("cons_ab", 0, <<e.env[1], arg>>)
      [] e.tag = "cons_ab"        -> cons_body(e.env[1], e.env[2], arg)
      [] e.tag = "car"            -> car_body(arg)
      [] e.tag = "car_x"          -> Clo("car_xy", 0, <<arg>>)
      [] e.tag = "car_xy"         -> e.env[1]
      [] e.tag = "cdr"            -> cdr_body(arg)
      [] e.tag = "cdr_x"          -> Clo("cdr_xy", 0, <<>>)
      [] e.tag = "cdr_xy"         -> arg
      [] e.tag = "empty_list"     -> Clo("empty_list_f", 0, <<>>)
      [] e.tag = "empty_list_f"   -> Clo("empty_list_xy", 0, <<arg>>)
      [] e.tag = "empty_list_xy"  -> empty_list_xy_body(e.env[1], arg)
      [] e.tag = "is_empty"       -> is_empty_body(arg)
      [] e.tag = "is_empty_x"     -> Clo("is_empty_xy", 0, <<>>)
      [] e.tag = "is_empty_xy"    -> falsity
      [] e.tag = "_output_list"   -> Clo("_output_list_f", 0, <<arg>>)
      [] e.tag = "sum_step"       -> Clo("sum_step_self", 0, <<arg>>)
      [] e.tag = "sum_step_self"  -> sum_step_body(e.env[1], arg)
      [] e.tag = "sum_program"    -> sum_program_body(arg)

\* the lambdas whose body itself calls pass_by_value or writes a local
Stepping == {"operator()", "counting", "_output_list_f", "_output_list_emit"}

\* ---------------------------------------------------------- scott_encode
RECURSIVE scott_encode_reversed(_)
scott_encode_reversed(es) ==
    IF es = <<>> THEN empty_list
    ELSE operator_call(operator_call(cons, es[Len(es)]),
                       scott_encode_reversed(SubSeq(es, 1, Len(es) - 1)))

RECURSIVE scott_encode(_)
\* std::accumulate over the reversed range, cons(e)(acc), from empty_list
scott_encode(es) ==
    IF es = <<>> THEN empty_list
    ELSE operator_call(operator_call(cons, es[1]), scott_encode(Tail(es)))

church_encoded(xs) == [k \in 1..Len(xs) |-> church_encode(xs[k])]

\* ------------------------------------------------------------------ jobs
\* One behaviour runs one call of the library from a caller:
\*   church     church_decode of a numeral term built from xs
\*   scott      scott_decode(scott_encode(church numerals of xs)), then
\*              church_decode of every emitted expression
\*   run        run_on_integer_sequence(xs, program)
\*   value_call the chain e.pass_by_value(a1).pass_by_value(a2)...
\*   name_call  e.pass_by_value(a).pass_by_value(z), then t = e(a) and
\*              t.pass_by_value(z)
Job(kind, name, xs, es) == [kind |-> kind, name |-> name, xs |-> xs, es |-> es]

Numerals == 0..MaxN

ExamplePairs == {<<2, 3>>, <<3, 4>>, <<5, 2>>}

ExampleSeqs == {<<3, 1, 4>>, <<1, 2, 3, 4>>}

InputSeqs ==
    UNION {[1..len -> 0..MaxElem] : len \in 0..MaxLen} \cup ExampleSeqs

\* expressions standing for "any expression"
Pool == {I, K, church_encode(1), operator_call(K, S)}

Callees == {I, K, truth, succ, operator_call(K, I), operator_call(cons, K)}

ChurchJobs ==
    {Job("church", name, <<n>>, <<>>) :
        name \in {"encode", "succ", "pred"}, n \in Numerals}
    \cup {Job("church", name, p, <<>>) :
        name \in {"add", "sub", "mult"},
        p \in (Numerals \X Numerals) \cup ExamplePairs}

ScottJobs == {Job("scott", "", xs, <<>>) : xs \in InputSeqs}

RunJobs == {Job("run", name, xs, <<>>) : name \in {"I", "sum"}, xs \in InputSeqs}

ValueCallJobs ==
    {Job("value_call", "is_empty_nil", <<>>, <<p, q>>) : p \in Pool, q \in Pool}
    \cup {Job("value_call", "is_empty_cons", <<>>, <<a, b, p, q>>) :
            a \in Pool, b \in Pool, p \in Pool, q \in Pool}
    \cup {Job("value_call", "empty_list", <<>>, <<f, x>>) : f \in Pool, x \in Pool}
    \cup {Job("value_call", "empty_list", <<>>, <<f, x, y>>) :
            f \in Pool, x \in Pool, y \in Pool}

NameCallJobs ==
    {Job("name_call", "", <<>>, <<e, a, z>>) : e \in Callees, a \in Pool, z \in Pool}

Jobs == ChurchJobs \cup ScottJobs \cup RunJobs \cup ValueCallJobs \cup NameCallJobs

\* the numeral term a church job decodes
ChurchTerm(j) ==
    LET a == church_encode(j.xs[1])
    IN  CASE j.name = "encode" -> a
          [] j.name = "succ"   -> operator_call(succ, a)
          [] j.name = "pred"   -> operator_call(pred, a)
          [] j.name = "add"    -> operator_call(operator_call(add, a), church_encode(j.xs[2]))
          [] j.name = "sub"    -> operator_call(operator_call(sub, a), church_encode(j.xs[2]))
          [] j.name = "mult"   -> operator_call(operator_call(mult, a), church_encode(j.xs[2]))

Program(j) == IF j.name = "I" THEN I ELSE sum_program

\* callee and arguments of a value_call job
ChainCallee(j) ==
    CASE j.name = "is_empty_nil"  -> is_empty
      [] j.name = "is_empty_cons" -> is_empty
      [] j.name = "empty_list"    -> empty_list

ChainArgs(j) ==
    CASE j.name = "is_empty_nil"  -> <<empty_list, j.es[1], j.es[2]>>
      [] j.name = "is_empty_cons" ->
            <<operator_call(operator_call(cons, j.es[1]), j.es[2]), j.es[3], j.es[4]>>
      [] j.name = "empty_list"    -> j.es

\* ------------------------------------------------------------------ state
VARIABLES
    job,      \* the call under way
    pc,       \* where the caller is
    fn,       \* the expression whose mapping is invoked next
    stack,    \* the arguments still to be passed, innermost first
    decoded,  \* church_decode's local counter
    result,   \* what scott_decode wrote to its output iterator
    out,      \* the naturals written to the caller's output
    idx,      \* std::transform's position in scott_decoded
    built,    \* the expression a name_call job built with operator()
    ret,      \* what the chains of a value_call / name_call job returned
    steps,    \* invocations of a mapping (line 31) in the current chain
    invoked   \* the closures whose mapping was invoked in the current chain

vars == <<job, pc, fn, stack, decoded, result, out, idx, built, ret, steps, invoked>>

Running == {"church_decode", "scott_decode", "value_call"}

Init ==
    /\ job \in Jobs
    /\ pc = "start"
    /\ fn = I
    /\ stack = <<>>
    /\ decoded = 0
    /\ result = <<>>
    /\ out = <<>>
    /\ idx = 0
    /\ built = I
    /\ ret = <<>>
    /\ steps = 0
    /\ invoked = {}

\* ---------------------------------------------------------- the decoders
church_decode_args_one_I == <<counting, I>>

\* n.pass_by_value(counting).pass_by_value(I).pass_by_value(I)
church_decode_args == <<counting, I, I>>

scott_decode_args(list) == <<_output_list, list, I, I>>

\* std::size_t decoded = 0; then the chain
church_decode_call(n) ==
    /\ decoded' = 0
    /\ fn' = n
    /\ stack' = church_decode_args
    /\ steps' = 0
    /\ invoked' = {}
    /\ pc' = "church_decode"

\* Y.pass_by_value(_output_list).pass_by_value(list)...
scott_decode_call(list) ==
    /\ fn' = Y
    /\ stack' = scott_decode_args(list)
    /\ steps' = 0
    /\ invoked' = {}
    /\ pc' = "scott_decode"

\* ------------------------------------------------------------- the callers
StartChurch ==
    /\ pc = "start" /\ job.kind = "church"
    /\ church_decode_call(ChurchTerm(job))
    /\ UNCHANGED <<job, result, out, idx, built, ret>>

StartScott ==
    /\ pc = "start" /\ job.kind = "scott"
    /\ scott_decode_call(scott_encode(church_encoded(job.xs)))
    /\ UNCHANGED <<job, decoded, result, out, idx, built, ret>>

\* run_on_integer_sequence up to the call of scott_decode
run_on_integer_sequence ==
    /\ pc = "start" /\ job.kind = "run"
    /\ scott_decode_call(
            operator_call(Program(job), scott_encode(church_encoded(job.xs))))
    /\ UNCHANGED <<job, decoded, result, out, idx, built, ret>>

StartValueCall ==
    /\ pc = "start" /\ job.kind = "value_call"
    /\ fn' = ChainCallee(job)
    /\ stack' = ChainArgs(job)
    /\ pc' = "value_call"
    /\ UNCHANGED <<job, decoded, result, out, idx, built, ret, steps, invoked>>

StartNameCall ==
    /\ pc = "start" /\ job.kind = "name_call"
    /\ fn' = job.es[1]
    /\ stack' = <<job.es[2], job.es[3]>>
    /\ pc' = "value_call"
    /\ UNCHANGED <<job, decoded, result, out, idx, built, ret, steps, invoked>>

\* t = e(a): the public application
NameCallBuild ==
    /\ pc = "build"
    /\ built' = operator_call(job.es[1], job.es[2])
    /\ pc' = "built"
    /\ UNCHANGED <<job, fn, stack, decoded, result, out, idx, ret, steps, invoked>>

\* t.pass_by_value(z)
NameCallForce ==
    /\ pc = "built"
    /\ fn' = built
    /\ stack' = <<job.es[3]>>
    /\ steps' = 0
    /\ invoked' = {}
    /\ pc' = "value_call"
    /\ UNCHANGED <<job, decoded, result, out, idx, built, ret>>

\* ---------------------------------------------------------- pass_by_value
\* the mapping built by operator(): pass_by_value(arg).pass_by_value(_)
call_operator_call ==
    /\ pc \in Running /\ stack # <<>>
    /\ fn.tag = "operator()"
    /\ fn' = fn.env[1]
    /\ stack' = <<fn.env[2]>> \o stack
    /\ steps' = steps + 1
    /\ invoked' = invoked \cup {fn}
    /\ UNCHANGED <<job, pc, decoded, result, out, idx, built, ret>>

\* a mapping that only builds its result
call_lambda ==
    /\ pc \in Running /\ stack # <<>>
    /\ fn.tag \notin Stepping
    /\ fn' = Body(fn, stack[1])
    /\ stack' = Tail(stack)
    /\ steps' = steps + 1
    /\ invoked' = invoked \cup {fn}
    /\ UNCHANGED <<job, pc, decoded, result, out, idx, built, ret>>

\* [&decoded](expression x) { ++decoded; return x; }
call_counting ==
    /\ pc \in Running /\ stack # <<>>
    /\ fn.tag = "counting"
    /\ decoded' = decoded + 1
    /\ fn' = stack[1]
    /\ stack' = Tail(stack)
    /\ steps' = steps + 1
    /\ invoked' = invoked \cup {fn}
    /\ UNCHANGED <<job, pc, result, out, idx, built, ret>>

\* [&result, f](expression l): is_empty.pass_by_value(l)
\*     .pass_by_value(empty_list).pass_by_value([&result, l, f](expression _) {...})
call_output_list_f ==
    /\ pc \in Running /\ stack # <<>>
    /\ fn.tag = "_output_list_f"
    /\ fn' = is_empty
    /\ stack' = <<stack[1], empty_list,
                  Clo("_output_list_emit", 0, <<stack[1], fn.env[1]>>)>>
                \o Tail(stack)
    /\ steps' = steps + 1
    /\ invoked' = invoked \cup {fn}
    /\ UNCHANGED <<job, pc, decoded, result, out, idx, built, ret>>

\* *result++ = car.pass_by_value(l);
\* return f.pass_by_value(cdr.pass_by_value(l)).pass_by_value(_);
call_output_list_emit ==
    /\ pc \in Running /\ stack # <<>>
    /\ fn.tag = "_output_list_emit"
    /\ result' = Append(result, Body(car, fn.env[1]))
    /\ fn' = fn.env[2]
    /\ stack' = <<Body(cdr, fn.env[1])>> \o stack
    /\ steps' = steps + 3
    /\ invoked' = invoked \cup {fn, car, cdr}
    /\ UNCHANGED <<job, pc, decoded, out, idx, built, ret>>

\* ----------------------------------------------------------------- returns
\* return decoded; the caller stores it
church_decode_return ==
    /\ pc = "church_decode" /\ stack = <<>>
    /\ out' = Append(out, decoded)
    /\ IF job.kind = "church"
          THEN pc' = "done" /\ idx' = idx
          ELSE pc' = "transform" /\ idx' = idx + 1
    /\ UNCHANGED <<job, fn, stack, decoded, result, built, ret, steps, invoked>>

\* scott_decode returns; std::transform(scott_decoded.begin(), ...) starts
scott_decode_return ==
    /\ pc = "scott_decode" /\ stack = <<>>
    /\ pc' = "transform"
    /\ idx' = 1
    /\ UNCHANGED <<job, fn, stack, decoded, result, out, built, ret, steps, invoked>>

\* std::transform(..., church_decode): the next element, or the end
transform ==
    /\ pc = "transform"
    /\ IF idx <= Len(result)
          THEN church_decode_call(result[idx])
          ELSE /\ pc' = "done"
               /\ UNCHANGED <<fn, stack, decoded, steps, invoked>>
    /\ UNCHANGED <<job, result, out, idx, built, ret>>

value_call_return ==
    /\ pc = "value_call" /\ stack = <<>>
    /\ ret' = Append(ret, [val |-> fn, steps |-> steps, invoked |-> invoked])
    /\ pc' = IF job.kind = "name_call" /\ ret = <<>> THEN "build" ELSE "done"
    /\ UNCHANGED <<job, fn, stack, decoded, result, out, idx, built, steps, invoked>>

Next ==
    \/ StartChurch
    \/ StartScott
    \/ run_on_integer_sequence
    \/ StartValueCall
    \/ StartNameCall
    \/ NameCallBuild
    \/ NameCallForce
    \/ call_operator_call
    \/ call_lambda
    \/ call_counting
    \/ call_output_list_f
    \/ call_output_list_emit
    \/ church_decode_return
    \/ scott_decode_return
    \/ transform
    \/ value_call_return

Spec == Init /\ [][Next]_vars

\* the host runs the call to its end: no step waits on anything
FairSpec == Spec /\ WF_vars(Next)

Done == pc = "done"

\* ============================================================ properties
RECURSIVE SumSeq(_)
SumSeq(xs) == IF xs = <<>> THEN 0 ELSE xs[1] + SumSeq(Tail(xs))

Monus(a, b) == IF a >= b THEN a - b ELSE 0

ChurchDone(name) == Done /\ job.kind = "church" /\ job.name = name

ChainDone(name) == Done /\ job.kind = "value_call" /\ job.name = name

RunOf(name) == job.kind = "run" /\ job.name = name

\* C1: church_decode(church_encode(n)) returns exactly n, for every n of the
\* range, 0 included.
C1_ChurchRoundTrip ==
    ChurchDone("encode") => out = <<job.xs[1]>> /\ decoded = job.xs[1]

C1_Witness == ChurchDone("encode") /\ job.xs[1] = 3 /\ out = <<3>>

\* C2: scott_decode of the scott_encode of the Church numerals of S emits
\* exactly Len(S) expressions, and the i-th one church_decodes to S[i]; the
\* empty list emits nothing.
C2_ScottRoundTrip ==
    /\ job.kind = "scott" /\ pc \in {"transform", "done"}
            => Len(result) = Len(job.xs)
    /\ job.kind = "scott" /\ Done => out = job.xs

C2_Witness ==
    Done /\ job.kind = "scott" /\ job.xs = <<3, 1, 4>> /\ Len(result) = 3
         /\ out = <<3, 1, 4>>

\* C3: run_on_integer_sequence with program I ends, and has then written
\* exactly the input sequence to the output.
C3_IdentityProgram ==
    /\ [](RunOf("I") /\ Done => out = job.xs)
    /\ (RunOf("I") ~> Done)

C3_Witness == RunOf("I") /\ Done /\ job.xs = <<3, 1, 4>> /\ out = <<3, 1, 4>>

\* C4: run_on_integer_sequence with the Y-built sum program ends, and has then
\* written the one-element sequence holding the sum of the input.
C4_SumProgram ==
    /\ [](RunOf("sum") /\ Done => out = <<SumSeq(job.xs)>>)
    /\ (RunOf("sum") ~> Done)

C4_Witness == RunOf("sum") /\ Done /\ job.xs = <<1, 2, 3, 4>> /\ out = <<10>>

\* C5: church_decode(add(church_encode(a))(church_encode(b))) returns a + b,
\* the counting function having been invoked exactly a + b times.
C5_Add ==
    ChurchDone("add") =>
        out = <<job.xs[1] + job.xs[2]>> /\ decoded = job.xs[1] + job.xs[2]

C5_Witness == ChurchDone("add") /\ job.xs = <<2, 3>> /\ out = <<5>>

\* C6: church_decode(sub(church_encode(a))(church_encode(b))) returns a - b
\* when a >= b and 0 otherwise; pred of 0 decodes to 0 and pred of n + 1 to n.
C6_SubPred ==
    /\ ChurchDone("sub") => out = <<Monus(job.xs[1], job.xs[2])>>
    /\ ChurchDone("pred") => out = <<Monus(job.xs[1], 1)>>

C6_Witness ==
    \/ ChurchDone("sub") /\ job.xs = <<5, 2>> /\ out = <<3>>
    \/ ChurchDone("sub") /\ job.xs = <<1, 3>> /\ out = <<0>>
    \/ ChurchDone("pred") /\ job.xs = <<0>> /\ out = <<0>>

\* C7: church_decode(mult(church_encode(a))(church_encode(b))) returns a * b,
\* also when a or b is 0.
C7_Mult == ChurchDone("mult") => out = <<job.xs[1] * job.xs[2]>>

C7_Witness == ChurchDone("mult") /\ job.xs = <<3, 4>> /\ out = <<12>>

\* C8: is_empty of empty_list, passed p and then q, returns p (it behaves as
\* truth); is_empty of cons(a)(b) returns q (it behaves as falsity), and the
\* mapping of neither a nor b is invoked on the way.
C8_IsEmpty ==
    /\ ChainDone("is_empty_nil") => ret[1].val = job.es[1]
    /\ ChainDone("is_empty_cons") =>
            /\ ret[1].val = job.es[4]
            /\ job.es[1] \notin ret[1].invoked
            /\ job.es[2] \notin ret[1].invoked

C8_Witness ==
    ChainDone("is_empty_cons") /\ job.es[3] # job.es[4] /\ ret[1].val = job.es[4]

\* C9 as stated: empty_list passed f and then x returns x itself.
C9_Original ==
    ChainDone("empty_list") /\ Len(job.es) = 2 => ret[1].val = job.es[2]

\* C9, amended: empty_list takes three arguments and returns the second:
\* passed f and x it returns the closure \y. x, which passed y returns x.
C9_EmptyListThreeArgs ==
    /\ ChainDone("empty_list") /\ Len(job.es) = 2 =>
            /\ ret[1].val.tag = "empty_list_xy"
            /\ Body(ret[1].val, I) = job.es[2]
            /\ Body(ret[1].val, K) = job.es[2]
    /\ ChainDone("empty_list") /\ Len(job.es) = 3 => ret[1].val = job.es[2]

C9_Witness ==
    ChainDone("empty_list") /\ Len(job.es) = 3 /\ job.es[2] # job.es[3]
        /\ ret[1].val = job.es[2]

\* C10: building t = e(a) invokes no mapping and t holds e and a as they
\* were; t.pass_by_value(z) returns what e.pass_by_value(a).pass_by_value(z)
\* returns, by the same invocations after the one of t's own mapping.
C10_NameCall ==
    /\ job.kind = "name_call" /\ pc = "built" =>
            /\ steps = ret[1].steps /\ invoked = ret[1].invoked
            /\ built.env = <<job.es[1], job.es[2]>>
    /\ job.kind = "name_call" /\ Done =>
            /\ ret[2].val = ret[1].val
            /\ ret[2].steps = ret[1].steps + 1
            /\ ret[2].invoked = ret[1].invoked \cup {built}

C10_Witness ==
    /\ job.kind = "name_call" /\ Done
    /\ job.es[1] = K /\ job.es[2] # job.es[3]
    /\ ret[2].val = job.es[2]

====
